---- MODULE Spec2Model ----
(***************************************************************************)
(* Model of lantern-allocators: the boundary-tag MemorySegmenter           *)
(* (src/src/memory_segmenter/mod.rs) and the mutex-wrapped LinkedListAlloc *)
(* (src/src/allocators/linked_list_allocator.rs).                          *)
(*                                                                         *)
(* Addresses are byte addresses.  Backing memory is a partial function     *)
(* from header addresses to the two-word SegmentMetadata {prev, size};     *)
(* its domain is the set of addresses a header was ever written to, so     *)
(* merged-away (stale) headers stay in memory exactly as the code leaves   *)
(* them and a read of a never-written address is an evaluation error.      *)
(***************************************************************************)
EXTENDS Integers, Sequences, FiniteSets, TLC

\* ---------------------------------------------------------------- bounds
RegionSlots == 4          \* region length in units of SegmentMetadata::SIZE
StartSlots == 2           \* region start addresses tried: SIZE .. StartSlots*SIZE
MaxAlignLog == 1          \* largest layout alignment is SIZE * 2^MaxAlignLog
MaxCycles == 9            \* allocate/deallocate cycles of the cycling caller
MaxZeroCalls == 1         \* create_used_segment calls with subsegment_size 0 in a run
MaxWordSlots == 4         \* largest size stored in a lone SegmentMetadata, in units of 8

\* ------------------------------------------------------- program constants
SIZE == 16                \* SegmentMetadata::SIZE = size_of::<{*mut, usize}>() on 64-bit
IN_USE_BIT == 0
NEXT_EXISTS_BIT == 1
null_mut == 0

Threads == {"t1", "t2"}

RegionBytes == RegionSlots * SIZE
Starts == {k * SIZE : k \in 1..StartSlots}

\* Layout inputs: a zero-size request, a sub-header request, one that needs
\* rounding to two headers, the whole region, and one byte-count too many.
Sizes == {0, 1, SIZE + 1, RegionBytes - SIZE, RegionBytes}
Aligns == {2} \cup {SIZE * 2^k : k \in 1..MaxAlignLog}

Max(a, b) == IF a >= b THEN a ELSE b

\* ------------------------------------------------------ bit_field::BitField
get_bit(w, b) == (w \div (2^b)) % 2 = 1

set_bit(w, b, v) ==
    IF get_bit(w, b) = v THEN w
    ELSE IF v THEN w + 2^b ELSE w - 2^b

\* ---------------------------------------------------------- SegmentMetadata
in_use(h) == get_bit(h.size, IN_USE_BIT)

set_in_use(h, v) == [h EXCEPT !.size = set_bit(h.size, IN_USE_BIT, v)]

next_exists(h) == get_bit(h.size, NEXT_EXISTS_BIT)

set_next_exists(h, v) == [h EXCEPT !.size = set_bit(h.size, NEXT_EXISTS_BIT, v)]

\* SegmentMetadata::new stores the raw size word and then sets the two flags.
new(p, sz, used, nxt) ==
    set_next_exists(set_in_use([prev |-> p, size |-> sz], used), nxt)

size(h) == (h.size \div 8) * 8

set_size_panics(sz) == sz % 8 # 0

\* Mutant: the whole word is replaced by the size.
set_size_clobbers_flags(h, sz) == [h EXCEPT !.size = sz]

\* bits 3.. of the word are replaced, bits 0..2 kept
set_size(h, sz) == [h EXCEPT !.size = (h.size % 8) + (sz \div 8) * 8]

size_allocable(h) == size(h) - SIZE

alloc_start_ptr(a) == a + SIZE

prev(h) == h.prev

set_prev(h, p) == [h EXCEPT !.prev = p]

end_exclusive(a, h) == a + size(h)

\* Option<*mut SegmentMetadata>: null_mut stands for None
next(a, h) == IF next_exists(h) THEN a + size(h) ELSE null_mut

\* pointer::align_offset for a byte pointer and a power-of-two alignment
align_offset(p, a) == (a - (p % a)) % a

\* --------------------------------------------------------- backing memory
write_metadata(m, dest, src) ==
    [x \in (DOMAIN m) \cup {dest} |-> IF x = dest THEN src ELSE m[x]]

read_metadata(m, src) == m[src]

\* --------------------------------------------------------- MemorySegmenter
\* The manager's own fields; the headers live in backing memory.
segmenter_new(st, en) ==
    [head |-> st, start |-> st, end_exclusive |-> en, num_nodes |-> 1]

segmenter_size(sl) == sl.end_exclusive - sl.start

\* MemorySegmenter::new writes the single free header spanning the region.
memory_new(st, en) ==
    write_metadata(<<>>, st, new(null_mut, segmenter_size(segmenter_new(st, en)), FALSE, FALSE))

overhead(sl) == sl.num_nodes * SIZE

\* MemorySegmenterIter: the header addresses visited from curr, in order.
\* fuel bounds the walk (a block of size 0 would otherwise never advance).
RECURSIVE iter_from(_, _, _)
iter_from(m, curr, fuel) ==
    IF curr = null_mut \/ fuel = 0 THEN <<>>
    ELSE <<curr>> \o iter_from(m, next(curr, m[curr]), fuel - 1)

iter(m, sl) == iter_from(m, sl.head, (segmenter_size(sl) \div SIZE) + 1)

\* Mutant: the block after a split or merge keeps its old prev.
fixup_next_prev_skipped(m, a, p) == m

\* set_prev on next(), when there is one
fixup_next_prev(m, a, p) ==
    LET n == next(a, m[a])
    IN IF n = null_mut THEN m ELSE write_metadata(m, n, set_prev(m[n], p))

\* Mutant: the trailing free header does not inherit the candidate's
\* next_exists, so the list ends at the new remainder.
create_used_segment_aligned_drops_next(m, sl, segment, subsegment_size) ==
    LET m1 == write_metadata(m, segment, set_in_use(m[segment], TRUE))
    IN IF size(m1[segment]) = subsegment_size
       THEN [status |-> "ok", mem |-> m1, list |-> sl, seg |-> segment]
       ELSE
         LET old_size == size(m1[segment])
             m2 == write_metadata(m1, segment, set_size(m1[segment], subsegment_size))
             next_free_ptr == segment + size(m2[segment])
             m3 == write_metadata(m2, next_free_ptr,
                                  new(segment, old_size - subsegment_size, FALSE, FALSE))
             m4 == write_metadata(m3, segment, set_next_exists(m3[segment], TRUE))
         IN [status |-> "ok", mem |-> m4,
             list |-> [sl EXCEPT !.num_nodes = @ + 1], seg |-> segment]

\* Mutant: an aligned candidate is handed out whole, never truncated.
create_used_segment_aligned_whole(m, sl, segment, subsegment_size) ==
    [status |-> "ok", mem |-> write_metadata(m, segment, set_in_use(m[segment], TRUE)),
     list |-> sl, seg |-> segment]

\* Case A of create_used_segment (lines 63-94): the payload of `segment` is
\* already aligned.
create_used_segment_aligned(m, sl, segment, subsegment_size) ==
    LET m1 == write_metadata(m, segment, set_in_use(m[segment], TRUE))
    IN IF size(m1[segment]) = subsegment_size
       THEN [status |-> "ok", mem |-> m1, list |-> sl, seg |-> segment]
       ELSE
         LET old_size == size(m1[segment])
             old_next_exists == next_exists(m1[segment])
             m2 == write_metadata(m1, segment, set_size(m1[segment], subsegment_size))
             next_free_ptr == segment + size(m2[segment])
             next_free_size == old_size - subsegment_size
             m3 == write_metadata(m2, next_free_ptr,
                                  new(segment, next_free_size, FALSE, old_next_exists))
             m4 == write_metadata(m3, segment, set_next_exists(m3[segment], TRUE))
             m5 == write_metadata(m4, next_free_ptr, set_prev(m4[next_free_ptr], segment))
             m6 == fixup_next_prev(m5, next_free_ptr, next_free_ptr)
         IN [status |-> "ok", mem |-> m6,
             list |-> [sl EXCEPT !.num_nodes = @ + 1], seg |-> segment]

\* Mutant: Case B places the payload one alignment step further than needed.
create_used_segment_unaligned_skips_ahead(m, sl, segment, subsegment_size, required_align) ==
    LET alloc_bytes0 == alloc_start_ptr(segment)
        alloc_bytes == alloc_bytes0 + Max(align_offset(alloc_bytes0, required_align), SIZE)
                          + required_align
        new_segment_bytes == alloc_bytes - SIZE
    IN IF new_segment_bytes + subsegment_size > end_exclusive(segment, m[segment])
       THEN [status |-> "err", mem |-> m, list |-> sl, seg |-> null_mut]
       ELSE
         LET nsp == new_segment_bytes
             m1 == write_metadata(m, nsp, new(segment, subsegment_size, TRUE, FALSE))
             seg_end == end_exclusive(segment, m1[segment])
             new_end == end_exclusive(nsp, m1[nsp])
             has_trailing == seg_end # new_end
             new_next_ptr == new_end
             new_next_size == seg_end - new_next_ptr
             t1 == write_metadata(m1, new_next_ptr, new(nsp, new_next_size, FALSE, FALSE))
             t2 == write_metadata(t1, new_next_ptr,
                                  set_next_exists(t1[new_next_ptr], next_exists(t1[segment])))
             t3 == write_metadata(t2, nsp, set_next_exists(t2[nsp], TRUE))
             e1 == write_metadata(m1, nsp, set_next_exists(m1[nsp], next_exists(m1[segment])))
             m2 == IF has_trailing THEN t3 ELSE e1
             trailing_segment == IF has_trailing THEN new_next_ptr ELSE nsp
             m3 == fixup_next_prev(m2, segment, trailing_segment)
             m4 == write_metadata(m3, segment, set_size(m3[segment], new_segment_bytes - segment))
             m5 == write_metadata(m4, segment, set_next_exists(m4[segment], TRUE))
         IN [status |-> "ok", mem |-> m5,
             list |-> [sl EXCEPT !.num_nodes = @ + (IF has_trailing THEN 2 ELSE 1)],
             seg |-> nsp]

\* Case B of create_used_segment (lines 96-152): a new header is placed
\* inside `segment` so that its payload is aligned.
create_used_segment_unaligned(m, sl, segment, subsegment_size, required_align) ==
    LET alloc_bytes0 == alloc_start_ptr(segment)
        alloc_bytes == alloc_bytes0 + Max(align_offset(alloc_bytes0, required_align), SIZE)
        new_segment_bytes == alloc_bytes - SIZE
    IN IF new_segment_bytes + subsegment_size > end_exclusive(segment, m[segment])
       THEN [status |-> "err", mem |-> m, list |-> sl, seg |-> null_mut]
       ELSE
         LET nsp == new_segment_bytes
             m1 == write_metadata(m, nsp, new(segment, subsegment_size, TRUE, FALSE))
             seg_end == end_exclusive(segment, m1[segment])
             new_end == end_exclusive(nsp, m1[nsp])
             has_trailing == seg_end # new_end
             new_next_ptr == new_end
             new_next_size == seg_end - new_next_ptr
             t1 == write_metadata(m1, new_next_ptr, new(nsp, new_next_size, FALSE, FALSE))
             t2 == write_metadata(t1, new_next_ptr,
                                  set_next_exists(t1[new_next_ptr], next_exists(t1[segment])))
             t3 == write_metadata(t2, nsp, set_next_exists(t2[nsp], TRUE))
             e1 == write_metadata(m1, nsp, set_next_exists(m1[nsp], next_exists(m1[segment])))
             m2 == IF has_trailing THEN t3 ELSE e1
             trailing_segment == IF has_trailing THEN new_next_ptr ELSE nsp
             m3 == fixup_next_prev(m2, segment, trailing_segment)
             m4 == write_metadata(m3, segment, set_size(m3[segment], new_segment_bytes - segment))
             m5 == write_metadata(m4, segment, set_next_exists(m4[segment], TRUE))
         IN [status |-> IF set_size_panics(new_segment_bytes - segment) THEN "panic" ELSE "ok",
             mem |-> IF set_size_panics(new_segment_bytes - segment) THEN m3 ELSE m5,
             list |-> [sl EXCEPT !.num_nodes = @ + (IF has_trailing THEN 2 ELSE 1)],
             seg |-> nsp]

\* Mutant: the in_use check of lines 49-51 is missing.
create_used_segment_no_in_use_check(m, sl, segment, subsegment_size, required_align) ==
    IF subsegment_size > size(m[segment]) \/ subsegment_size % SIZE # 0 THEN
        [status |-> "err", mem |-> m, list |-> sl, seg |-> null_mut]
    ELSE IF align_offset(alloc_start_ptr(segment), required_align) = 0 THEN
        create_used_segment_aligned(m, sl, segment, subsegment_size)
    ELSE
        create_used_segment_unaligned(m, sl, segment, subsegment_size, required_align)

\* Mutant: the alignment test of line 63 is missing, every candidate is
\* used as it is.
create_used_segment_ignores_align(m, sl, segment, subsegment_size, required_align) ==
    IF \/ in_use(m[segment])
       \/ subsegment_size > size(m[segment])
       \/ subsegment_size % SIZE # 0
    THEN [status |-> "err", mem |-> m, list |-> sl, seg |-> null_mut]
    ELSE create_used_segment_aligned(m, sl, segment, subsegment_size)

\* Mutant: the node count is bumped before the candidate is validated.
create_used_segment_counts_first(m, sl, segment, subsegment_size, required_align) ==
    IF \/ in_use(m[segment])
       \/ subsegment_size > size(m[segment])
       \/ subsegment_size % SIZE # 0
    THEN [status |-> "err", mem |-> m, list |-> [sl EXCEPT !.num_nodes = @ + 1],
          seg |-> null_mut]
    ELSE IF align_offset(alloc_start_ptr(segment), required_align) = 0 THEN
        create_used_segment_aligned(m, sl, segment, subsegment_size)
    ELSE
        create_used_segment_unaligned(m, sl, segment, subsegment_size, required_align)

\* Mutant: a size that is not a multiple of SIZE is accepted.
create_used_segment_no_multiple_check(m, sl, segment, subsegment_size, required_align) ==
    IF in_use(m[segment]) THEN
        [status |-> "err", mem |-> m, list |-> sl, seg |-> null_mut]
    ELSE IF subsegment_size > size(m[segment]) THEN
        [status |-> "err", mem |-> m, list |-> sl, seg |-> null_mut]
    ELSE IF align_offset(alloc_start_ptr(segment), required_align) = 0 THEN
        create_used_segment_aligned(m, sl, segment, subsegment_size)
    ELSE
        create_used_segment_unaligned(m, sl, segment, subsegment_size, required_align)

\* MemorySegmenter::create_used_segment.  Returns the outcome ("ok"/"err"),
\* the memory and manager fields it leaves behind, and the used header.
create_used_segment(m, sl, segment, subsegment_size, required_align) ==
    IF in_use(m[segment]) THEN
        [status |-> "err", mem |-> m, list |-> sl, seg |-> null_mut]
    ELSE IF subsegment_size > size(m[segment]) THEN
        [status |-> "err", mem |-> m, list |-> sl, seg |-> null_mut]
    ELSE IF subsegment_size % SIZE # 0 THEN
        [status |-> "err", mem |-> m, list |-> sl, seg |-> null_mut]
    ELSE IF align_offset(alloc_start_ptr(segment), required_align) = 0 THEN
        create_used_segment_aligned(m, sl, segment, subsegment_size)
    ELSE
        create_used_segment_unaligned(m, sl, segment, subsegment_size, required_align)

\* Mutant: the first segment is freed without coalescing its free successor.
delete_used_segment_no_coalesce(m, sl, segment) ==
    IF ~in_use(m[segment]) THEN
        [status |-> "err", mem |-> m, list |-> sl, seg |-> null_mut]
    ELSE IF prev(m[segment]) = null_mut THEN
        [status |-> "ok", mem |-> write_metadata(m, segment, set_in_use(m[segment], FALSE)),
         list |-> sl, seg |-> segment]
    ELSE
        [status |-> "panic", mem |-> m, list |-> sl, seg |-> null_mut]

\* Mutant: a merge forgets to decrement the node count.
delete_used_segment_keeps_count(m, sl, segment) ==
    IF ~in_use(m[segment]) THEN
        [status |-> "err", mem |-> m, list |-> sl, seg |-> null_mut]
    ELSE IF prev(m[segment]) = null_mut THEN
        LET n == next(segment, m[segment])
            coalesce == n # null_mut /\ ~in_use(m[n])
            m1 == write_metadata(m, segment, set_next_exists(m[segment], next_exists(m[n])))
            m2 == write_metadata(m1, segment,
                                 set_size(m1[segment], size(m1[segment]) + size(m1[n])))
            m3 == fixup_next_prev(m2, segment, segment)
            m4 == IF coalesce THEN m3 ELSE m
        IN [status |-> "ok", mem |-> write_metadata(m4, segment, set_in_use(m4[segment], FALSE)),
            list |-> sl, seg |-> segment]
    ELSE
        [status |-> "panic", mem |-> m, list |-> sl, seg |-> null_mut]

\* Mutant: a segment that is not in use is freed like any other.
delete_used_segment_no_in_use_check(m, sl, segment) ==
    IF prev(m[segment]) = null_mut THEN
        LET n == next(segment, m[segment])
            coalesce == n # null_mut /\ ~in_use(m[n])
            m1 == write_metadata(m, segment, set_next_exists(m[segment], next_exists(m[n])))
            m2 == write_metadata(m1, segment,
                                 set_size(m1[segment], size(m1[segment]) + size(m1[n])))
            m3 == fixup_next_prev(m2, segment, segment)
            m4 == IF coalesce THEN m3 ELSE m
        IN [status |-> "ok", mem |-> write_metadata(m4, segment, set_in_use(m4[segment], FALSE)),
            list |-> [sl EXCEPT !.num_nodes = @ - (IF coalesce THEN 1 ELSE 0)],
            seg |-> segment]
    ELSE
        [status |-> "panic", mem |-> m, list |-> sl, seg |-> null_mut]

\* MemorySegmenter::delete_used_segment.  "panic" is the todo!() reached for
\* every segment that is not the first one.
delete_used_segment(m, sl, segment) ==
    IF ~in_use(m[segment]) THEN
        [status |-> "err", mem |-> m, list |-> sl, seg |-> null_mut]
    ELSE IF prev(m[segment]) = null_mut THEN
        LET n == next(segment, m[segment])
            coalesce == n # null_mut /\ ~in_use(m[n])
            m1 == write_metadata(m, segment, set_next_exists(m[segment], next_exists(m[n])))
            m2 == write_metadata(m1, segment,
                                 set_size(m1[segment], size(m1[segment]) + size(m1[n])))
            m3 == fixup_next_prev(m2, segment, segment)
            m4 == IF coalesce THEN m3 ELSE m
            m5 == write_metadata(m4, segment, set_in_use(m4[segment], FALSE))
        IN [status |-> "ok", mem |-> m5,
            list |-> [sl EXCEPT !.num_nodes = @ - (IF coalesce THEN 1 ELSE 0)],
            seg |-> segment]
    ELSE
        [status |-> "panic", mem |-> m, list |-> sl, seg |-> null_mut]

\* --------------------------------------------------------- LinkedListAlloc
next_multiple_of(n, k) == IF n % k = 0 THEN n ELSE n + (k - (n % k))

\* The alignment feasibility check the scan calls for each entry: where
\* would the payload of a used block of subsegment_size bytes go inside
\* `entry` at required_align (spec 4.2.2: the entry's own payload when it is
\* aligned, else the smallest aligned address leaving room for a header),
\* and does that block end inside the entry.
calculate_alloc_ptr_with_required_align(m, entry, subsegment_size, required_align) ==
    LET payload == alloc_start_ptr(entry)
        p == IF align_offset(payload, required_align) = 0
             THEN payload
             ELSE payload + Max(align_offset(payload, required_align), SIZE)
    IN [ok |-> (p - SIZE) + subsegment_size <= end_exclusive(entry, m[entry]), ptr |-> p]

real_align(lay) == Max(lay.align, SIZE)

real_layout_size(lay) == next_multiple_of(lay.size, SIZE)

subsegment_size_of(lay) == real_layout_size(lay) + SIZE

\* The for loop of allocate (lines 39-54): every entry that passes both
\* checks overwrites valid_segment_ptr; there is no break.
RECURSIVE allocate_scan_from(_, _, _, _, _)
allocate_scan_from(m, entries, i, lay, valid) ==
    IF i > Len(entries) THEN valid
    ELSE LET entry == entries[i]
             skip == \/ size_allocable(m[entry]) < real_layout_size(lay)
                     \/ ~calculate_alloc_ptr_with_required_align(
                            m, entry, subsegment_size_of(lay), real_align(lay)).ok
         IN allocate_scan_from(m, entries, i + 1, lay, IF skip THEN valid ELSE entry)

allocate_scan(m, sl, lay) == allocate_scan_from(m, iter(m, sl), 1, lay, null_mut)

AllocError == [ok |-> FALSE, ptr |-> null_mut, len |-> 0]

\* Lines 56-76 of allocate: split the chosen segment and build the slice.
allocate_split(m, sl, valid, lay) ==
    IF valid = null_mut THEN [mem |-> m, list |-> sl, res |-> AllocError]
    ELSE LET candidate == create_used_segment(m, sl, valid, subsegment_size_of(lay),
                                              real_align(lay))
         IN [mem |-> candidate.mem, list |-> candidate.list,
             res |-> IF candidate.status = "ok"
                     THEN [ok |-> TRUE, ptr |-> alloc_start_ptr(candidate.seg),
                           len |-> real_layout_size(lay)]
                     ELSE AllocError]

\* Lines 83-87 of deallocate.
deallocate_free(m, sl, p) == delete_used_segment(m, sl, p - SIZE)

\* ------------------------------------------------------------------ state
VARIABLES
    mem,                \* backing memory: header address -> SegmentMetadata
    segmenter_list,     \* the MemorySegmenter fields
    lock,               \* owner of the allocator's mutex, or NoThread
    pc,                 \* where each caller thread is
    layout,             \* the Layout of a thread's allocate call
    valid_segment_ptr,  \* allocate's local of that name
    result,             \* the value allocate is about to return
    ptr,                \* the pointer of a thread's deallocate call
    allocs,             \* outstanding allocations: returned, not yet freed
    scenario,           \* history: "fill" while only allocations succeeded,
                        \* "drain" once one failed and only frees followed
    cycles,             \* calls counted against a bound: the cycles a cycling
                        \* caller has begun, the zero-size calls of the manager
    seg_op,             \* the last direct call of a MemorySegmenter or
                        \* SegmentMetadata operation and what it returned
    metadata            \* a lone SegmentMetadata, as in tests::segment_metadata

vars == <<mem, segmenter_list, lock, pc, layout, valid_segment_ptr, result, ptr,
          allocs, scenario, cycles, seg_op, metadata>>

\* what only the cycling caller and the direct callers of the manager and of
\* SegmentMetadata change
aux == <<cycles, seg_op, metadata>>

NoOp == [op |-> "none", segment |-> null_mut, size |-> 0, align |-> 1,
         status |-> "ok", seg |-> null_mut]

NoThread == "none"
NoLayout == [size |-> 0, align |-> 1]

Init ==
    /\ \E st \in Starts :
        /\ mem = memory_new(st, st + RegionBytes)
        /\ segmenter_list = segmenter_new(st, st + RegionBytes)
    /\ lock = NoThread
    /\ pc = [t \in Threads |-> "idle"]
    /\ layout = [t \in Threads |-> NoLayout]
    /\ valid_segment_ptr = [t \in Threads |-> null_mut]
    /\ result = [t \in Threads |-> AllocError]
    /\ ptr = [t \in Threads |-> null_mut]
    /\ allocs = {}
    /\ scenario = "fill"
    /\ cycles = 0
    /\ seg_op = NoOp
    /\ metadata = new(null_mut, 0, FALSE, FALSE)

\* A caller enters allocate(layout).
AllocCall(t) ==
    /\ pc[t] = "idle"
    /\ \E sz \in Sizes, al \in Aligns :
        layout' = [layout EXCEPT ![t] = [size |-> sz, align |-> al]]
    /\ pc' = [pc EXCEPT ![t] = "alloc_lock"]
    /\ UNCHANGED <<mem, segmenter_list, lock, valid_segment_ptr, result, ptr, allocs, scenario>>
    /\ UNCHANGED aux

\* Mutant: allocate enters its critical section without waiting for the
\* mutex to be free.
AllocLock_no_wait(t) ==
    /\ pc[t] = "alloc_lock"
    /\ lock' = t
    /\ pc' = [pc EXCEPT ![t] = "alloc_scan"]
    /\ UNCHANGED <<mem, segmenter_list, layout, valid_segment_ptr, result, ptr, allocs, scenario>>
    /\ UNCHANGED aux

\* self.0.lock() at line 31
AllocLock(t) ==
    /\ pc[t] = "alloc_lock"
    /\ lock = NoThread
    /\ lock' = t
    /\ pc' = [pc EXCEPT ![t] = "alloc_scan"]
    /\ UNCHANGED <<mem, segmenter_list, layout, valid_segment_ptr, result, ptr, allocs, scenario>>
    /\ UNCHANGED aux

\* lines 33-54
AllocScan(t) ==
    /\ pc[t] = "alloc_scan"
    /\ valid_segment_ptr' =
         [valid_segment_ptr EXCEPT ![t] = allocate_scan(mem, segmenter_list, layout[t])]
    /\ pc' = [pc EXCEPT ![t] = "alloc_split"]
    /\ UNCHANGED <<mem, segmenter_list, lock, layout, result, ptr, allocs, scenario>>
    /\ UNCHANGED aux

\* lines 56-76
AllocSplit(t) ==
    /\ pc[t] = "alloc_split"
    /\ LET r == allocate_split(mem, segmenter_list, valid_segment_ptr[t], layout[t])
       IN /\ mem' = r.mem
          /\ segmenter_list' = r.list
          /\ result' = [result EXCEPT ![t] = r.res]
    /\ pc' = [pc EXCEPT ![t] = "alloc_ret"]
    /\ UNCHANGED <<lock, layout, valid_segment_ptr, ptr, allocs, scenario>>
    /\ UNCHANGED aux

\* line 77: the guard is dropped and the caller gets the result.
AllocReturn(t) ==
    /\ pc[t] = "alloc_ret"
    /\ lock' = NoThread
    /\ allocs' = IF result[t].ok
                 THEN allocs \cup {[ptr |-> result[t].ptr, len |-> result[t].len]}
                 ELSE allocs
    /\ scenario' = IF scenario = "fill" THEN (IF result[t].ok THEN "fill" ELSE "drain")
                   ELSE "off"
    /\ pc' = [pc EXCEPT ![t] = "idle"]
    /\ layout' = [layout EXCEPT ![t] = NoLayout]
    /\ valid_segment_ptr' = [valid_segment_ptr EXCEPT ![t] = null_mut]
    /\ result' = [result EXCEPT ![t] = AllocError]
    /\ UNCHANGED <<mem, segmenter_list, ptr>>
    /\ UNCHANGED aux

\* A caller passes one of the outstanding allocations to deallocate.
DeallocCall(t) ==
    /\ pc[t] = "idle"
    /\ \E a \in allocs :
        /\ ptr' = [ptr EXCEPT ![t] = a.ptr]
        /\ allocs' = allocs \ {a}
    /\ scenario' = IF scenario = "drain" THEN "drain" ELSE "off"
    /\ pc' = [pc EXCEPT ![t] = "dealloc_lock"]
    /\ UNCHANGED <<mem, segmenter_list, lock, layout, valid_segment_ptr, result>>
    /\ UNCHANGED aux

\* self.0.lock() at line 80
DeallocLock(t) ==
    /\ pc[t] = "dealloc_lock"
    /\ lock = NoThread
    /\ lock' = t
    /\ pc' = [pc EXCEPT ![t] = "dealloc_free"]
    /\ UNCHANGED <<mem, segmenter_list, layout, valid_segment_ptr, result, ptr, allocs, scenario>>
    /\ UNCHANGED aux

\* lines 83-87: an Err or the todo!() panics; unwinding drops the guard.
DeallocFree(t) ==
    /\ pc[t] = "dealloc_free"
    /\ LET r == deallocate_free(mem, segmenter_list, ptr[t])
       IN /\ mem' = r.mem
          /\ segmenter_list' = r.list
          /\ pc' = [pc EXCEPT ![t] = IF r.status = "ok" THEN "dealloc_ret" ELSE "panicked"]
          /\ lock' = IF r.status = "ok" THEN lock ELSE NoThread
    /\ UNCHANGED <<layout, valid_segment_ptr, result, ptr, allocs, scenario>>
    /\ UNCHANGED aux

\* line 88
DeallocReturn(t) ==
    /\ pc[t] = "dealloc_ret"
    /\ lock' = NoThread
    /\ pc' = [pc EXCEPT ![t] = "idle"]
    /\ ptr' = [ptr EXCEPT ![t] = null_mut]
    /\ UNCHANGED <<mem, segmenter_list, layout, valid_segment_ptr, result, allocs, scenario>>
    /\ UNCHANGED aux

Next ==
    \E t \in Threads :
        \/ AllocCall(t)
        \/ AllocLock(t)
        \/ AllocScan(t)
        \/ AllocSplit(t)
        \/ AllocReturn(t)
        \/ DeallocCall(t)
        \/ DeallocLock(t)
        \/ DeallocFree(t)
        \/ DeallocReturn(t)

Spec == Init /\ [][Next]_vars

\* ------------------------------------------- the cycling caller (Box::new_in)
\* ll_allocator_exceed_max: one caller allocates a u64-sized box and drops
\* it, over and over, on a fresh allocator.
Cycler == "t1"

BoxLayout == [size |-> 8, align |-> 8]

CycleAllocCall ==
    /\ pc[Cycler] = "idle"
    /\ allocs = {}
    /\ cycles < MaxCycles
    /\ cycles' = cycles + 1
    /\ layout' = [layout EXCEPT ![Cycler] = BoxLayout]
    /\ pc' = [pc EXCEPT ![Cycler] = "alloc_lock"]
    /\ UNCHANGED <<mem, segmenter_list, lock, valid_segment_ptr, result, ptr, allocs,
                   scenario, seg_op, metadata>>

CycleNext ==
    \/ CycleAllocCall
    \/ AllocLock(Cycler)
    \/ AllocScan(Cycler)
    \/ AllocSplit(Cycler)
    \/ AllocReturn(Cycler)
    \/ DeallocCall(Cycler)
    \/ DeallocLock(Cycler)
    \/ DeallocFree(Cycler)
    \/ DeallocReturn(Cycler)

SpecCycle == Init /\ [][CycleNext]_vars

\* ------------------------------------------------- vocabulary of the claims
Blocks == iter(mem, segmenter_list)

Header(a) == mem[a]

RegionStart == segmenter_list.start

RegionEnd == segmenter_list.end_exclusive

RECURSIVE SumSizes(_, _)
SumSizes(bs, i) == IF i > Len(bs) THEN 0 ELSE size(Header(bs[i])) + SumSizes(bs, i + 1)

\* the bytes [p, p + len)
PayloadRange(a) == a.ptr .. (a.ptr + a.len - 1)

\* an allocation is handed out from the moment allocate has built its result
Pending == {[ptr |-> result[t].ptr, len |-> result[t].len] :
                t \in {u \in Threads : pc[u] = "alloc_ret" /\ result[u].ok}}

InCall(t) == pc[t] \notin {"idle", "panicked"}

\* size rounded up to a multiple of SIZE, stated without next_multiple_of
RoundedUp(n) == CHOOSE r \in 0..(n + SIZE) : r % SIZE = 0 /\ r >= n /\ r - n < SIZE

\* ---------------------------------------------------------------- claims

\* C1: under any interleaving of allocate and deallocate calls of concurrent
\* callers, the payload ranges of the outstanding allocations are pairwise
\* disjoint and each lies inside [start, end).  An allocation counts from
\* the moment allocate holds its result, so a pointer handed out twice is
\* seen even when both copies would be the same record.
C1_PayloadsDisjointInRegion ==
    /\ \A a \in allocs \cup Pending :
        /\ PayloadRange(a) \subseteq RegionStart .. (RegionEnd - 1)
        /\ \A b \in (allocs \cup Pending) \ {a} : PayloadRange(a) \cap PayloadRange(b) = {}
    /\ Pending \cap allocs = {}

C1_Witness ==
    \E t, u \in Threads :
        /\ t # u
        /\ pc[t] = "alloc_ret" /\ result[t].ok /\ result[t].len > 0
        /\ InCall(u)
        /\ \E a \in allocs : a.len > 0

\* C2: the blocks reached from the head tile the region exactly: the first
\* starts at start, each next one starts where the previous ends, the last
\* ends at end, the sizes sum to end - start and no block ends past end.
C2_BlocksTileRegion ==
    LET bs == Blocks
        n == Len(bs)
    IN /\ n >= 1
       /\ n <= RegionBytes \div SIZE
       /\ bs[1] = RegionStart
       /\ \A i \in 1..(n - 1) : end_exclusive(bs[i], Header(bs[i])) = bs[i + 1]
       /\ end_exclusive(bs[n], Header(bs[n])) = RegionEnd
       /\ SumSizes(bs, 1) = RegionEnd - RegionStart
       /\ \A i \in 1..n : end_exclusive(bs[i], Header(bs[i])) <= RegionEnd

C2_Witness ==
    /\ Len(Blocks) >= 3
    /\ \E t \in Threads : pc[t] = "alloc_ret" /\ ~result[t].ok
    /\ \E t \in Threads : pc[t] = "dealloc_lock"

\* C3: every block with next_exists set is followed by a block whose prev is
\* that block's address; the first block has a null prev; the block that ends
\* the list has next_exists clear and no other block ends at the region end.
C3_Linkage ==
    LET bs == Blocks
        n == Len(bs)
    IN /\ \A i \in 1..n :
             next_exists(Header(bs[i])) =>
                 /\ (bs[i] + size(Header(bs[i]))) \in DOMAIN mem
                 /\ prev(Header(bs[i] + size(Header(bs[i])))) = bs[i]
                 /\ bs[i] + size(Header(bs[i])) < RegionEnd
       /\ prev(Header(bs[1])) = null_mut
       /\ bs[1] = segmenter_list.head
       /\ ~next_exists(Header(bs[n]))

C3_Witness ==
    LET bs == Blocks
    IN /\ Len(bs) >= 3
       /\ \E i \in 2..(Len(bs) - 1) : ~in_use(Header(bs[i]))

\* C4: a pointer returned by a successful allocate(size, align) is aligned
\* to the requested alignment and to the header size, whichever is larger.
C4_ReturnedPointerAligned ==
    \A t \in Threads :
        (pc[t] = "alloc_ret" /\ result[t].ok) =>
            /\ result[t].ptr % layout[t].align = 0
            /\ result[t].ptr % SIZE = 0
            /\ result[t].ptr % Max(layout[t].align, SIZE) = 0

C4_Witness ==
    /\ \E t \in Threads : pc[t] = "alloc_ret" /\ result[t].ok
                          /\ layout[t] = [size |-> 1, align |-> 2]
    /\ Len(Blocks) >= 3

\* C5: a successful allocate(size, align) returns a slice whose length is
\* size rounded up to a multiple of the header size, and the header just
\* before the pointer is in use with total size rounded + header size.
C5_LengthAndHeader ==
    \A t \in Threads :
        (pc[t] = "alloc_ret" /\ result[t].ok) =>
            /\ result[t].len = RoundedUp(layout[t].size)
            /\ (result[t].ptr - SIZE) \in DOMAIN mem
            /\ in_use(Header(result[t].ptr - SIZE))
            /\ size(Header(result[t].ptr - SIZE)) = RoundedUp(layout[t].size) + SIZE
            /\ size_allocable(Header(result[t].ptr - SIZE)) = RoundedUp(layout[t].size)
            /\ LET bs == Blocks IN \E i \in 1..Len(bs) : bs[i] = result[t].ptr - SIZE

C5_Witness ==
    \E t \in Threads : /\ pc[t] = "alloc_ret" /\ result[t].ok
                       /\ layout[t].size = SIZE + 1
                       /\ result[t].len = 2 * SIZE
                       /\ next_exists(Header(result[t].ptr - SIZE))

\* C6: deallocating an outstanding allocation returns normally whatever the
\* block's position, also when its prev is non-null.  Every deallocate of
\* this specification is of an outstanding allocation, so no caller may end
\* in a panic.
C6_DeallocateReturnsNormally ==
    \A t \in Threads : pc[t] # "panicked"

\* C7: once allocations were made until one failed and every outstanding
\* allocation was then passed to deallocate, in any order, and no call is in
\* progress, the manager holds one free block of the whole region and
\* overhead() is the header size.
C7_FillAndDrain ==
    (scenario = "drain" /\ allocs = {} /\ \A t \in Threads : ~InCall(t)) =>
        LET bs == Blocks
        IN /\ Len(bs) = 1
           /\ ~in_use(Header(bs[1]))
           /\ size(Header(bs[1])) = RegionEnd - RegionStart
           /\ overhead(segmenter_list) = SIZE

\* C8: no two physically adjacent blocks are both free.
C8_NoAdjacentFree ==
    LET bs == Blocks
    IN \A i \in 1..(Len(bs) - 1) : in_use(Header(bs[i])) \/ in_use(Header(bs[i + 1]))

C8_Witness ==
    /\ \E t \in Threads : pc[t] = "dealloc_ret"
    /\ Len(Blocks) = 1
    /\ Cardinality(DOMAIN mem) >= 3

\* C9: an allocate call that returns the failure condition changes neither
\* backing memory (so no header) nor the manager's fields (so not the node
\* count): no step of a call that ends in failure changes them.
C9_FailedAllocateChangesNothing ==
    [][\A t \in Threads :
          (pc[t] \in {"alloc_lock", "alloc_scan", "alloc_split", "alloc_ret"}
             /\ pc'[t] # pc[t]
             /\ ~(pc'[t] = "alloc_ret" /\ result'[t].ok)
             /\ ~(pc[t] = "alloc_ret" /\ result[t].ok))
          => (mem' = mem /\ segmenter_list' = segmenter_list)]_vars

C9_Witness ==
    \E t \in Threads : /\ pc[t] = "alloc_ret" /\ ~result[t].ok
                       /\ valid_segment_ptr[t] # null_mut
                       /\ Len(Blocks) >= 2

\* the used block of a request fits in block b at alignment al: some aligned
\* payload address p has its header either on b's header or a full header
\* past it, and the block of n + SIZE bytes ends inside b
FitsIn(b, n, al) ==
    \E p \in (b + SIZE)..(b + size(Header(b))) :
        /\ p % al = 0
        /\ (p = b + SIZE \/ p >= b + 2 * SIZE)
        /\ p + n <= b + size(Header(b))

\* C10: allocate fails only when no block fits: a call about to return the
\* failure condition sees no free block that can hold the rounded request
\* at the promoted alignment.
C10_FailsOnlyWhenNoFit ==
    \A t \in Threads :
        (pc[t] = "alloc_ret" /\ ~result[t].ok) =>
            LET bs == Blocks
                n == RoundedUp(layout[t].size)
            IN ~\E i \in 1..Len(bs) :
                  /\ ~in_use(Header(bs[i]))
                  /\ size_allocable(Header(bs[i])) >= n
                  /\ FitsIn(bs[i], n, Max(layout[t].align, SIZE))

\* block b is free, its payload holds the rounded request and the used block
\* can be placed in it at the promoted alignment
Qualifies(b, lay) ==
    /\ ~in_use(Header(b))
    /\ size_allocable(Header(b)) >= RoundedUp(lay.size)
    /\ FitsIn(b, RoundedUp(lay.size), Max(lay.align, SIZE))

\* C11: the block allocate goes on to split is the first one in address
\* order that qualifies: when the scan is over and some block qualifies,
\* valid_segment_ptr is the lowest qualifying block, never a later one.
C11_FirstFit ==
    \A t \in Threads :
        pc[t] = "alloc_split" =>
            LET bs == Blocks
                q == {i \in 1..Len(bs) : Qualifies(bs[i], layout[t])}
            IN q # {} =>
                 valid_segment_ptr[t] = bs[CHOOSE i \in q : \A j \in q : i <= j]

\* what the manager's list looks like: the headers reached from the head,
\* each with its address, and the node count
ListView(m, sl) ==
    LET bs == iter(m, sl)
    IN [blocks |-> [i \in 1..Len(bs) |-> [addr |-> bs[i], prev |-> prev(m[bs[i]]),
                                         size |-> size(m[bs[i]]),
                                         in_use |-> in_use(m[bs[i]]),
                                         next_exists |-> next_exists(m[bs[i]])]],
        num_nodes |-> sl.num_nodes]

\* C12: from any state in which no call holds the mutex, a successful
\* p = allocate(s, a) followed at once by deallocate(p, _) returns normally
\* and leaves the same blocks (address, prev, size, in_use, next_exists) and
\* the same node count as before the allocate.
C12_AllocateFreeRoundTrip ==
    lock = NoThread =>
        \A sz \in Sizes, al \in Aligns :
            LET lay == [size |-> sz, align |-> al]
                valid == allocate_scan(mem, segmenter_list, lay)
                r == allocate_split(mem, segmenter_list, valid, lay)
            IN r.res.ok =>
                 LET d == deallocate_free(r.mem, r.list, r.res.ptr)
                 IN /\ d.status = "ok"
                    /\ ListView(d.mem, d.list) = ListView(mem, segmenter_list)

\* how many BoxLayout allocations the region holds at the same time
BoxesThatFit == RegionBytes \div (2 * SIZE)

\* C13: on a fresh allocator every allocate(8, 8) + immediate deallocate
\* cycle succeeds, however many cycles came before: the allocate never
\* returns the failure condition and the deallocate never panics.
C13_EveryCycleSucceeds ==
    /\ pc[Cycler] # "panicked"
    /\ pc[Cycler] = "alloc_ret" => (result[Cycler].ok /\ result[Cycler].len = SIZE)
    /\ (pc[Cycler] = "idle" /\ allocs = {}) => Len(Blocks) = 1

C13_Witness ==
    /\ cycles >= 3 * BoxesThatFit
    /\ cycles > BoxesThatFit
    /\ pc[Cycler] = "dealloc_ret"

\* A caller that breaks deallocate's safety contract: it passes a pointer
\* whose header is not in use (a second free of a released block, or a
\* header that a merge has left behind).
DoubleFreeCall(t) ==
    /\ pc[t] = "idle"
    /\ \E a \in DOMAIN mem :
        /\ ~in_use(mem[a])
        /\ ptr' = [ptr EXCEPT ![t] = alloc_start_ptr(a)]
    /\ scenario' = "off"
    /\ pc' = [pc EXCEPT ![t] = "dealloc_lock"]
    /\ UNCHANGED <<mem, segmenter_list, lock, layout, valid_segment_ptr, result, allocs>>
    /\ UNCHANGED aux

DoubleFreeNext ==
    \/ AllocCall(Cycler)
    \/ AllocLock(Cycler)
    \/ AllocScan(Cycler)
    \/ AllocSplit(Cycler)
    \/ AllocReturn(Cycler)
    \/ DeallocCall(Cycler)
    \/ DoubleFreeCall(Cycler)
    \/ DeallocLock(Cycler)
    \/ DeallocFree(Cycler)
    \/ DeallocReturn(Cycler)

SpecDoubleFree == Init /\ [][DoubleFreeNext]_vars

\* C16: when deallocate reaches the manager with a header whose in_use flag
\* is clear, the manager's Err changes no header and no node count, and the
\* expect() on it panics: the call unwinds instead of returning.
C16_DoubleFreeRejected ==
    [][\A t \in Threads :
         (/\ pc[t] = "dealloc_free"
          /\ pc'[t] # "dealloc_free"
          /\ ~in_use(mem[ptr[t] - SIZE]))
         => /\ pc'[t] = "panicked"
            /\ mem' = mem
            /\ segmenter_list' = segmenter_list]_vars

\* the caller has panicked on a header that is not in use, in a list that
\* has been split
C16_Witness ==
    /\ pc[Cycler] = "panicked"
    /\ ~in_use(mem[ptr[Cycler] - SIZE])
    /\ Len(Blocks) >= 2
    /\ allocs # {}

\* Two callers that allocate and free boxes of one or two headers' worth of
\* payload.
BoxCall(t) ==
    /\ pc[t] = "idle"
    /\ \E sz \in {BoxLayout.size, SIZE + 1} :
        layout' = [layout EXCEPT ![t] = [size |-> sz, align |-> BoxLayout.align]]
    /\ scenario' = "off"
    /\ pc' = [pc EXCEPT ![t] = "alloc_lock"]
    /\ UNCHANGED <<mem, segmenter_list, lock, valid_segment_ptr, result, ptr, allocs>>
    /\ UNCHANGED aux

BoxNext ==
    \E t \in Threads :
        \/ BoxCall(t)
        \/ AllocLock(t)
        \/ AllocScan(t)
        \/ AllocSplit(t)
        \/ AllocReturn(t)
        \/ DeallocCall(t)
        \/ DeallocLock(t)
        \/ DeallocFree(t)
        \/ DeallocReturn(t)

\* the steps a caller takes while it holds the mutex
Critical(t) ==
    \/ AllocScan(t)
    \/ AllocSplit(t)
    \/ AllocReturn(t)
    \/ DeallocFree(t)
    \/ DeallocReturn(t)

\* A call in progress runs without yielding (weak fairness of its steps); the
\* mutex is fair: a thread that finds the lock free again and again gets it
\* (strong fairness of lock()).
Fairness ==
    \A t \in Threads :
        /\ SF_vars(AllocLock(t) \/ DeallocLock(t))
        /\ WF_vars(Critical(t))

SpecBox == Init /\ [][BoxNext]_vars

FairSpec == SpecBox /\ Fairness

\* C17: under a fair lock every started allocate and every deallocate of an
\* outstanding allocation leads to that caller being back at its call site
\* with the mutex not held by it.
C17_EveryCallReturns ==
    \A t \in Threads : InCall(t) ~> (pc[t] = "idle" /\ lock # t)

\* ---------------------------------------------------------------------
\* The manager driven directly, as tests::segmenter does: any block of the
\* list is passed to create_used_segment or delete_used_segment.  seg_op
\* records the call in progress and its result.  A panic ends the run.
SegSizes == {SIZE \div 2, RegionBytes + SIZE} \cup {k * SIZE : k \in 1..RegionSlots}

SegAligns == {SIZE * 2^k : k \in 0..MaxAlignLog}

SegFrame ==
    UNCHANGED <<lock, pc, layout, valid_segment_ptr, result, ptr, allocs, scenario, cycles,
                metadata>>

SegCreate ==
    /\ seg_op = NoOp
    /\ LET bs == iter(mem, segmenter_list)
       IN \E i \in 1..Len(bs), sz \in SegSizes, al \in SegAligns :
            LET r == create_used_segment(mem, segmenter_list, bs[i], sz, al)
            IN /\ mem' = r.mem
               /\ segmenter_list' = r.list
               /\ seg_op' = [op |-> "create", segment |-> bs[i], size |-> sz, align |-> al,
                             status |-> r.status, seg |-> r.seg]
    /\ SegFrame

SegDelete ==
    /\ seg_op = NoOp
    /\ LET bs == iter(mem, segmenter_list)
       IN \E i \in 1..Len(bs) :
            LET r == delete_used_segment(mem, segmenter_list, bs[i])
            IN /\ mem' = r.mem
               /\ segmenter_list' = r.list
               /\ seg_op' = [op |-> "delete", segment |-> bs[i], size |-> 0, align |-> 1,
                             status |-> r.status, seg |-> r.seg]
    /\ SegFrame

\* The call hands its Result back to the driver; after a panic there is no
\* driver left to hand it to.
SegReturn ==
    /\ seg_op # NoOp
    /\ seg_op.status # "panic"
    /\ seg_op' = NoOp
    /\ UNCHANGED <<mem, segmenter_list>>
    /\ SegFrame

SegNext == SegCreate \/ SegDelete \/ SegReturn

SpecSeg == Init /\ [][SegNext]_vars

\* The payload address that the split must use for candidate c: c's own
\* payload when that is aligned, else the smallest aligned address that
\* leaves room for a whole header after c's own.
PlacedPayload(c, al) ==
    IF (c + SIZE) % al = 0 THEN c + SIZE
    ELSE CHOOSE p \in (c + SIZE)..(c + 2 * SIZE + al) :
            /\ p % al = 0
            /\ p - c >= 2 * SIZE
            /\ \A q \in (c + SIZE)..(p - 1) : ~(q % al = 0 /\ q - c >= 2 * SIZE)

\* the four cases in which create_used_segment must refuse
MustRefuse(m, c, n, al) ==
    \/ in_use(m[c])
    \/ n > size(m[c])
    \/ n % SIZE # 0
    \/ PlacedPayload(c, al) - SIZE + n > end_exclusive(c, m[c])

\* C18: create_used_segment returns Err, writes no header and leaves the
\* node count alone when the candidate is in use, the size exceeds the
\* candidate's, the size is not a multiple of SIZE, or the aligned used block
\* would end past the candidate's end.
C18_SplitErrors ==
    [][(/\ seg_op'.op = "create"
        /\ MustRefuse(mem, seg_op'.segment, seg_op'.size, seg_op'.align))
       => /\ seg_op'.status = "err"
          /\ mem' = mem
          /\ segmenter_list' = segmenter_list]_vars

\* a free candidate that is large enough for a well-formed size was refused
\* because of the alignment, in a list that has been split before
C18_Witness ==
    /\ seg_op.op = "create"
    /\ seg_op.status = "err"
    /\ ~in_use(mem[seg_op.segment])
    /\ seg_op.size % SIZE = 0
    /\ seg_op.size <= size(mem[seg_op.segment])
    /\ Len(Blocks) >= 2

\* position of block c in the sequence of blocks bs
IndexOf(bs, c) == CHOOSE i \in 1..Len(bs) : bs[i] = c

\* size, in_use and next_exists of a header: everything but its prev link
Packed(h) == h.size

\* C19: a successful create_used_segment replaces the free candidate by one,
\* two or three contiguous blocks that cover the candidate's former bytes
\* exactly: at most one free block before the used one and at most one after
\* it, exactly one of them in use.  Every other block keeps its address, size,
\* in_use and next_exists.
C19_SplitFrame ==
    [][(seg_op'.op = "create" /\ seg_op'.status = "ok") =>
        LET before == iter(mem, segmenter_list)
            after == iter(mem', segmenter_list')
            c == seg_op'.segment
            i == IndexOf(before, c)
            k == Len(after) - Len(before)
            made == i..(i + k)
            used == {j \in made : in_use(mem'[after[j]])}
        IN /\ k \in 0..2
           /\ after[i] = c
           /\ \A j \in made : j < i + k => after[j] + size(mem'[after[j]]) = after[j + 1]
           /\ after[i + k] + size(mem'[after[i + k]]) = c + size(mem[c])
           /\ \A j \in made : size(mem'[after[j]]) >= SIZE
           /\ used = {IndexOf(after, seg_op'.seg)}
           /\ \A j \in made : \A u \in used : j - u \in {-1, 0, 1}
           /\ next_exists(mem'[after[i + k]]) = next_exists(mem[c])
           /\ \A j \in 1..(i - 1) :
                 after[j] = before[j] /\ mem'[after[j]] = mem[before[j]]
           /\ \A j \in (i + 1)..Len(before) :
                 /\ after[j + k] = before[j]
                 /\ Packed(mem'[after[j + k]]) = Packed(mem[before[j]])
                 /\ j > i + 1 => prev(mem'[after[j + k]]) = prev(mem[before[j]])]_vars

\* a split has made three blocks of one candidate: a free one, the used one
\* and a free one
C19_Witness ==
    /\ seg_op.op = "create"
    /\ seg_op.status = "ok"
    /\ seg_op.seg # seg_op.segment
    /\ ~in_use(mem[seg_op.segment])
    /\ in_use(mem[seg_op.seg])
    /\ next_exists(mem[seg_op.seg])
    /\ ~in_use(mem[next(seg_op.seg, mem[seg_op.seg])])

\* C20: when the candidate's payload address is not aligned, the used
\* block's payload is the smallest aligned address at least two headers
\* past the candidate's header; the used header sits one header below it
\* with the requested size, prev = candidate and in_use set, and the
\* candidate stays free, shrunk to end at the used header, with next_exists
\* set.
C20_UnalignedPlacement ==
    [][(/\ seg_op'.op = "create"
        /\ seg_op'.status = "ok"
        /\ (seg_op'.segment + SIZE) % seg_op'.align # 0) =>
        LET c == seg_op'.segment
            p == PlacedPayload(c, seg_op'.align)
        IN /\ p >= c + SIZE /\ p % seg_op'.align = 0 /\ p - c >= 2 * SIZE
           /\ seg_op'.seg = p - SIZE
           /\ size(mem'[p - SIZE]) = seg_op'.size
           /\ prev(mem'[p - SIZE]) = c
           /\ in_use(mem'[p - SIZE])
           /\ ~in_use(mem'[c])
           /\ size(mem'[c]) = p - SIZE - c
           /\ size(mem'[c]) >= SIZE
           /\ next_exists(mem'[c])]_vars

\* an unaligned candidate was split with the used block running to the
\* candidate's end, so that only the leading free block was added
C20_Witness ==
    /\ seg_op.op = "create"
    /\ seg_op.status = "ok"
    /\ (seg_op.segment + SIZE) % seg_op.align # 0
    /\ prev(mem[seg_op.seg]) = seg_op.segment
    /\ end_exclusive(seg_op.seg, mem[seg_op.seg]) = RegionEnd
    /\ segmenter_list.num_nodes = 2

\* the positions of a call between taking the mutex and dropping the guard
CriticalPcs == {"alloc_scan", "alloc_split", "alloc_ret", "dealloc_free", "dealloc_ret"}

\* C14: the mutex is held for the whole of every call: a caller is between
\* its lock() and its return exactly when it owns the mutex, so at most one
\* call reads or writes the block list at a time, and a caller that has
\* returned (or unwound) does not own it.
C14_MutexHeldForWholeCall ==
    /\ \A t \in Threads : (pc[t] \in CriticalPcs) <=> (lock = t)
    /\ \A t, u \in Threads : (pc[t] \in CriticalPcs /\ pc[u] \in CriticalPcs) => t = u
    /\ lock \in Threads \cup {NoThread}

C14_Witness ==
    \E t, u \in Threads :
        /\ pc[t] = "alloc_split" /\ lock = t
        /\ pc[u] = "dealloc_lock"
        /\ Len(Blocks) >= 2

\* C15: the node count is the number of headers the iteration from head
\* visits, so overhead() is that number times the header size: one after
\* creation, one more per remainder block of a split, one less per merge.
C15_NodeCountIsBlockCount ==
    LET bs == Blocks
    IN /\ segmenter_list.num_nodes = Len(bs)
       /\ overhead(segmenter_list) = Len(bs) * SIZE
       /\ Cardinality(DOMAIN mem) = 1 => overhead(segmenter_list) = SIZE

\* a split left three blocks and a merge has brought the list back to fewer
\* blocks than headers were written
C15_Witness ==
    /\ seg_op.op = "delete"
    /\ seg_op.status = "ok"
    /\ Len(Blocks) = 2
    /\ Cardinality(DOMAIN mem) >= 3

\* C21: freeing an in-use block absorbs a free physically next block: the
\* sizes add up, next_exists is taken from the absorbed block, the block
\* after it gets the freed block as prev and the node count goes down by
\* one.  With the next block in use or absent only in_use is cleared.
C21_ForwardMerge ==
    [][(seg_op'.op = "delete" /\ in_use(mem[seg_op'.segment])) =>
        LET c == seg_op'.segment
            n == next(c, mem[c])
        IN /\ seg_op'.status = "ok"
           /\ ~in_use(mem'[c])
           /\ IF n # null_mut /\ ~in_use(mem[n])
              THEN /\ size(mem'[c]) = size(mem[c]) + size(mem[n])
                   /\ next_exists(mem'[c]) = next_exists(mem[n])
                   /\ next_exists(mem[n]) => prev(mem'[n + size(mem[n])]) = c
                   /\ segmenter_list'.num_nodes = segmenter_list.num_nodes - 1
              ELSE /\ size(mem'[c]) = size(mem[c])
                   /\ next_exists(mem'[c]) = next_exists(mem[c])
                   /\ segmenter_list'.num_nodes = segmenter_list.num_nodes]_vars

\* create_used_segment has no lower limit on subsegment_size: 0 passes the
\* three checks at lines 49-59.  The calls modelled here are those whose
\* writes stay inside the region (the candidate has a next block); with the
\* last block as candidate the call writes a prev link at the region's end.
SegCreateZero ==
    /\ seg_op = NoOp
    /\ cycles < MaxZeroCalls
    /\ cycles' = cycles + 1
    /\ LET bs == iter(mem, segmenter_list)
       IN \E i \in 1..Len(bs), al \in SegAligns :
            /\ next_exists(mem[bs[i]])
            /\ LET r == create_used_segment(mem, segmenter_list, bs[i], 0, al)
               IN /\ mem' = r.mem
                  /\ segmenter_list' = r.list
                  /\ seg_op' = [op |-> "create", segment |-> bs[i], size |-> 0, align |-> al,
                                status |-> r.status, seg |-> r.seg]
    /\ UNCHANGED <<lock, pc, layout, valid_segment_ptr, result, ptr, allocs, scenario,
                   metadata>>

SegAnyNext == SegCreate \/ SegCreateZero \/ SegDelete \/ SegReturn

SpecSegAny == Init /\ [][SegAnyNext]_vars

\* C22: whenever the manager has returned without error, every block of the
\* list has a size that is a multiple of SIZE and at least SIZE, whatever
\* size and alignment the call was given.
C22_SizesLegal ==
    (seg_op.status = "ok") =>
        LET bs == Blocks
        IN \A i \in 1..Len(bs) :
              /\ size(Header(bs[i])) % SIZE = 0
              /\ size(Header(bs[i])) >= SIZE

\* ---------------------------------------------------------------------
\* A lone SegmentMetadata and its setters, as tests::segment_metadata uses
\* them.  seg_op.size holds the argument (a bool as 0 or 1).
WordSizes == {8 * k : k \in 0..MaxWordSlots} \cup {8 * k + b : k \in 0..1, b \in 1..7}

WordOp(name, arg, st) ==
    [op |-> name, segment |-> null_mut, size |-> arg, align |-> 1, status |-> st,
     seg |-> null_mut]

WordFrame ==
    UNCHANGED <<mem, segmenter_list, lock, pc, layout, valid_segment_ptr, result, ptr, allocs,
                scenario, cycles>>

\* set_size, lines 274-279: the panic comes before the write
WordSetSize ==
    /\ seg_op = NoOp
    /\ \E s \in WordSizes :
        IF set_size_panics(s)
        THEN /\ metadata' = metadata
             /\ seg_op' = WordOp("set_size", s, "panic")
        ELSE /\ metadata' = set_size(metadata, s)
             /\ seg_op' = WordOp("set_size", s, "ok")
    /\ WordFrame

WordSetInUse ==
    /\ seg_op = NoOp
    /\ \E v \in BOOLEAN :
        /\ metadata' = set_in_use(metadata, v)
        /\ seg_op' = WordOp("set_in_use", IF v THEN 1 ELSE 0, "ok")
    /\ WordFrame

WordSetNextExists ==
    /\ seg_op = NoOp
    /\ \E v \in BOOLEAN :
        /\ metadata' = set_next_exists(metadata, v)
        /\ seg_op' = WordOp("set_next_exists", IF v THEN 1 ELSE 0, "ok")
    /\ WordFrame

WordNext == WordSetSize \/ WordSetInUse \/ WordSetNextExists \/ SegReturn

SpecWord == Init /\ [][WordNext]_vars

\* C23: size and flags share one word without disturbing each other:
\* set_size(s) with the low three bits of s clear makes size() = s and keeps
\* in_use and next_exists; with any of them set it panics and the header is
\* as before; set_in_use and set_next_exists set their flag and keep size()
\* and the other flag.
C23_PackedWord ==
    [][/\ (seg_op'.op = "set_size" /\ seg_op'.size % 8 = 0) =>
            /\ seg_op'.status = "ok"
            /\ size(metadata') = seg_op'.size
            /\ in_use(metadata') = in_use(metadata)
            /\ next_exists(metadata') = next_exists(metadata)
       /\ (seg_op'.op = "set_size" /\ seg_op'.size % 8 # 0) =>
            /\ seg_op'.status = "panic"
            /\ metadata' = metadata
       /\ seg_op'.op = "set_in_use" =>
            /\ in_use(metadata') = (seg_op'.size = 1)
            /\ size(metadata') = size(metadata)
            /\ next_exists(metadata') = next_exists(metadata)
       /\ seg_op'.op = "set_next_exists" =>
            /\ next_exists(metadata') = (seg_op'.size = 1)
            /\ size(metadata') = size(metadata)
            /\ in_use(metadata') = in_use(metadata)]_vars

\* a size was stored over a word that has both flags set
C23_Witness ==
    /\ seg_op.op = "set_size"
    /\ seg_op.status = "ok"
    /\ seg_op.size = 8 * MaxWordSlots
    /\ size(metadata) = seg_op.size
    /\ in_use(metadata)
    /\ next_exists(metadata)

\* the pointers of the allocations that have been returned and whose own
\* deallocate has not taken the mutex yet
Held == {a.ptr : a \in allocs} \cup {ptr[t] : t \in {u \in Threads : pc[u] = "dealloc_lock"}}

\* C24: a step that changes memory while an allocation is outstanding leaves
\* that allocation's header where it is, a block of the list with the same
\* size and in_use set, and writes no header inside its payload.
C24_OutstandingUndisturbed ==
    [][mem' # mem =>
        \A p \in Held \cap Held' :
            LET h == p - SIZE
                payload == p .. (h + size(mem[h]) - 1)
                after == iter(mem', segmenter_list')
            IN /\ in_use(mem[h]) /\ in_use(mem'[h])
               /\ size(mem'[h]) = size(mem[h])
               /\ \E i \in 1..Len(after) : after[i] = h
               /\ \A x \in DOMAIN mem' :
                     x \in payload => (x \in DOMAIN mem /\ mem'[x] = mem[x])]_vars

\* an allocation with a payload is outstanding and another block has just
\* been carved right behind it
C24_Witness ==
    \E a \in allocs, t \in Threads :
        /\ a.len > 0
        /\ pc[t] = "alloc_ret"
        /\ result[t].ok
        /\ result[t].ptr - SIZE = a.ptr + a.len

====
